---- MODULE Spec2Model ----
(***************************************************************************)
(* Model of the Dealbuster backend (src/src/backend/server.js): the deal,  *)
(* user and alert registries held in `state`, the one-shot promotion check *)
(* scheduled with setTimeout, the consensus check run after a verification *)
(* and the alert matcher.  Every HTTP handler and the timer callback is one *)
(* atomic action (Node runs each to completion).                            *)
(*                                                                         *)
(* Identifiers produced by uuidv4() are modelled by the position at which  *)
(* the object was created (users, deals) or by a creation counter (alerts);*)
(* the identifier 0 stands for an id that is in no registry.  Date.now()   *)
(* is the variable clock, a non-decreasing number of milliseconds.         *)
(* broadcast() appends to `events`, which holds the messages broadcast by  *)
(* the last step; `res` is the HTTP status of the last step's response.    *)
(***************************************************************************)
EXTENDS Integers, Sequences, FiniteSets, TLC

(***************************************************************************)
(* Bounds of the model.                                                    *)
(***************************************************************************)
MaxUsers == 3
MaxDeals == 1
MaxAlerts == 1
MaxVotes == 5
MaxTicks == 2
MaxVerifiers == 5
OrderVerifiers == 6
TickMs == 5000

(***************************************************************************)
(* Program constants.                                                      *)
(***************************************************************************)
promotionThreshold == 5
promotionDelaySimulated == 10000
CONSENSUS_THRESHOLD == 3
DefaultMinVerifications == 3

(***************************************************************************)
(* JavaScript values of a JSON request body: undefined (a missing field),  *)
(* a number, NaN, or a string (a sequence of one-character strings).       *)
(***************************************************************************)
Undefined == [t |-> "undefined", n |-> 0, s |-> <<>>]
NaN == [t |-> "nan", n |-> 0, s |-> <<>>]
Num(k) == [t |-> "number", n |-> k, s |-> <<>>]
Str(chars) == [t |-> "string", n |-> 0, s |-> chars]

\* !x
Falsy(x) ==
    \/ x.t = "undefined"
    \/ x.t = "nan"
    \/ x.t = "number" /\ x.n = 0
    \/ x.t = "string" /\ x.s = <<>>

Digits == <<"0", "1", "2", "3", "4", "5", "6", "7", "8", "9">>

IsDigit(c) == \E i \in 1..Len(Digits) : Digits[i] = c

DigitVal(c) == (CHOOSE i \in 1..Len(Digits) : Digits[i] = c) - 1

\* The length of the longest prefix of chars made of digits.
RECURSIVE DigitPrefix(_)
DigitPrefix(chars) ==
    IF chars = <<>> \/ ~IsDigit(Head(chars)) THEN 0
    ELSE 1 + DigitPrefix(Tail(chars))

\* The value of a sequence of digits, most significant first.
RECURSIVE DigitsValue(_)
DigitsValue(chars) ==
    IF chars = <<>> THEN 0
    ELSE 10 * DigitsValue(SubSeq(chars, 1, Len(chars) - 1))
         + DigitVal(chars[Len(chars)])

\* parseFloat(x): a number is itself, a string is its leading digits, and
\* anything without leading digits is NaN.  (Signs, blanks and fractions are
\* outside the modelled alphabet.)
parseFloat(x) ==
    CASE x.t = "number" -> x
      [] x.t = "string" ->
            IF DigitPrefix(x.s) = 0 THEN NaN
            ELSE Num(DigitsValue(SubSeq(x.s, 1, DigitPrefix(x.s))))
      [] OTHER -> NaN

\* ToNumber(x), the coercion applied by a relational operator: the empty
\* string is 0, a string of digits is its value, any other string is NaN.
ToNumber(x) ==
    CASE x.t = "number" -> x
      [] x.t = "string" ->
            IF x.s = <<>> THEN Num(0)
            ELSE IF DigitPrefix(x.s) = Len(x.s) THEN Num(DigitsValue(x.s))
            ELSE NaN
      [] OTHER -> NaN

\* x <= y on numbers: false when either side is NaN.
LessEq(x, y) ==
    /\ ToNumber(x).t = "number"
    /\ ToNumber(y).t = "number"
    /\ ToNumber(x).n <= ToNumber(y).n

\* x >= y
GreaterEq(x, y) == LessEq(y, x)

UpperLower ==
    { <<"A", "a">>, <<"C", "c">>, <<"E", "e">>, <<"G", "g">>, <<"L", "l">>,
      <<"N", "n">>, <<"P", "p">>, <<"R", "r">>, <<"T", "t">>, <<"V", "v">> }

toLowerCaseChar(c) ==
    IF \E p \in UpperLower : p[1] = c
    THEN (CHOOSE p \in UpperLower : p[1] = c)[2]
    ELSE c

\* String.prototype.toLowerCase
toLowerCase(chars) == [i \in 1..Len(chars) |-> toLowerCaseChar(chars[i])]

\* String.prototype.includes
includes(chars, sub) ==
    \E i \in 0..(Len(chars) - Len(sub)) : SubSeq(chars, i + 1, i + Len(sub)) = sub

\* String.prototype.trim, for the blank " ".
RECURSIVE trimStart(_)
trimStart(chars) ==
    IF chars # <<>> /\ Head(chars) = " " THEN trimStart(Tail(chars)) ELSE chars

RECURSIVE trimEnd(_)
trimEnd(chars) ==
    IF chars # <<>> /\ chars[Len(chars)] = " "
    THEN trimEnd(SubSeq(chars, 1, Len(chars) - 1))
    ELSE chars

trim(chars) == trimEnd(trimStart(chars))


(***************************************************************************)
(* The state.                                                              *)
(***************************************************************************)
VARIABLES
    users,         \* state.users: the registered users, in registration order
    deals,         \* state.deals: the deals, in submission order
    alerts,        \* state.alerts: the standing alerts, in insertion order
    alertsCreated, \* how many alert ids uuidv4() has handed out
    mode,          \* state.config.mode
    timers,        \* the pending setTimeout callbacks, each [dealId, due]
    clock,         \* Date.now()
    events,        \* the messages the last step broadcast, in order
    res,           \* the HTTP status of the last step (0: no response)
    triggerCount,  \* history: ALERT_TRIGGERED messages ever broadcast per <<alert, deal>>
    missed         \* history: the promotion checks that found too few votes

vars ==
    <<users, deals, alerts, alertsCreated, mode, timers, clock, events, res,
      triggerCount, missed>>

\* null / undefined in a timestamp field
None == -1

\* state.users.get(x) and state.deals.get(k) find something
\* Mutant: the lookup finds a user under any id.
HasUserAny(x) == TRUE

HasUser(x) == x.t = "number" /\ x.n \in 1..Len(users)

HasDeal(k) == k \in 1..Len(deals)

Event(type, dealId, status) ==
    [type |-> type, dealId |-> dealId, status |-> status, alertId |-> 0,
     latency |-> 0, mode |-> ""]

(***************************************************************************)
(* checkAlertsForDeal                                                      *)
(***************************************************************************)
keywordsMatch(alert, deal) ==
    \/ includes(toLowerCase(deal.title), alert.productKeywords)
    \/ includes(toLowerCase(deal.productCategory), alert.productKeywords)

\* Mutant: the comparison the wrong way round.
priceMatchSwapped(alert, deal) == LessEq(alert.maxPrice, deal.price)

priceMatch(alert, deal) == LessEq(deal.price, alert.maxPrice)

\* Mutant: only the valid verifications count.
verificationMatchValidOnly(alert, deal) ==
    GreaterEq(Num(Cardinality({i \in 1..Len(deal.verifications) :
                                  deal.verifications[i].verdict = "valid"})),
              alert.minVerifications)

verificationMatch(alert, deal) ==
    GreaterEq(Num(Len(deal.verifications)), alert.minVerifications)

alreadyTriggered(alert, deal) ==
    \E i \in 1..Len(alert.triggered) : alert.triggered[i] = deal.id

\* The alert fires for the deal: the two nested conditions of the loop body.
alertFires(alert, deal) ==
    /\ keywordsMatch(alert, deal) /\ priceMatch(alert, deal)
    /\ verificationMatch(alert, deal)
    /\ ~alreadyTriggered(alert, deal)

\* Mutant: the latency is the time of the notification, not the time since
\* the deal was submitted.
notificationSinceStart(alert, deal, now) ==
    [type |-> "ALERT_TRIGGERED", dealId |-> deal.id, status |-> deal.status,
     alertId |-> alert.id, latency |-> now, mode |-> ""]

notification(alert, deal, now) ==
    [type |-> "ALERT_TRIGGERED", dealId |-> deal.id, status |-> deal.status,
     alertId |-> alert.id, latency |-> now - deal.timestamp, mode |-> ""]

\* Mutant: every notification is broadcast twice.
RECURSIVE alertEventsTwice(_, _, _)
alertEventsTwice(als, deal, now) ==
    IF als = <<>> THEN <<>>
    ELSE (IF alertFires(Head(als), deal)
          THEN <<notification(Head(als), deal, now),
                 notification(Head(als), deal, now)>>
          ELSE <<>>)
         \o alertEventsTwice(Tail(als), deal, now)

\* The ALERT_TRIGGERED messages of one run over the alerts, in Map order.
RECURSIVE alertEvents(_, _, _)
alertEvents(als, deal, now) ==
    IF als = <<>> THEN <<>>
    ELSE (IF alertFires(Head(als), deal)
          THEN <<notification(Head(als), deal, now)>> ELSE <<>>)
         \o alertEvents(Tail(als), deal, now)

\* The alerts after the run: alert.triggered.push(deal.id) where it fired.
alertsAfter(als, deal) ==
    [i \in 1..Len(als) |->
        IF alertFires(als[i], deal)
        THEN [als[i] EXCEPT !.triggered = Append(@, deal.id)]
        ELSE als[i]]

\* The history of ALERT_TRIGGERED messages after the messages evs went out.
Logged(evs) ==
    [p \in DOMAIN triggerCount |->
        triggerCount[p]
        + Cardinality({i \in 1..Len(evs) :
                          /\ evs[i].type = "ALERT_TRIGGERED"
                          /\ evs[i].alertId = p[1]
                          /\ evs[i].dealId = p[2]})]


(***************************************************************************)
(* Steps that answer without changing the registries.                      *)
(***************************************************************************)
Reply(status) ==
    /\ res' = status
    /\ events' = <<>>
    /\ UNCHANGED <<users, deals, alerts, alertsCreated, mode, timers, clock,
                   triggerCount, missed>>

(***************************************************************************)
(* POST /api/users/register                                                *)
(***************************************************************************)
UsernameTaken(username) ==
    \E i \in 1..Len(users) : Str(users[i].username) = username

Register(username) ==
    IF Falsy(username) \/ Len(trim(username.s)) = 0 THEN Reply(400)
    ELSE IF UsernameTaken(username) THEN Reply(409)
    ELSE /\ users' = Append(users, [username |-> trim(username.s)])
         /\ res' = 200
         /\ events' = <<>>
         /\ UNCHANGED <<deals, alerts, alertsCreated, mode, timers, clock,
                        triggerCount, missed>>

(***************************************************************************)
(* POST /api/deals                                                         *)
(***************************************************************************)
General == <<"G", "e", "n", "e", "r", "a", "l">>

NewDeal(body, id, now) ==
    [id |-> id,
     title |-> body.title.s,
     price |-> parseFloat(body.price),
     productCategory |->
        IF Falsy(body.productCategory) THEN General ELSE body.productCategory.s,
     submittedBy |-> body.submittedBy.n,
     timestamp |-> now,
     verifications |-> <<>>,
     votes |-> 0,
     status |-> "pending",
     promotedAt |-> None,
     verifiedAt |-> None]

\* Mutant: the promotion check is scheduled in either mode.
schedulesCheckAlways == TRUE

\* The handler schedules the promotion check in centralized mode only.
schedulesCheck == mode = "centralized"

SubmitDeal(body) ==
    IF Falsy(body.title) \/ Falsy(body.price) \/ Falsy(body.url)
       \/ Falsy(body.submittedBy)
    THEN Reply(400)
    ELSE IF ~HasUser(body.submittedBy) THEN Reply(404)
    ELSE /\ deals' = Append(deals, NewDeal(body, Len(deals) + 1, clock))
         /\ timers' =
               IF schedulesCheck
               THEN timers \cup {[dealId |-> Len(deals) + 1,
                                  due |-> clock + promotionDelaySimulated]}
               ELSE timers
         /\ events' = <<Event("NEW_DEAL", Len(deals) + 1, "pending")>>
         /\ res' = 200
         /\ UNCHANGED <<users, alerts, alertsCreated, mode, clock,
                        triggerCount, missed>>

(***************************************************************************)
(* checkPromotion, the setTimeout callback                                 *)
(***************************************************************************)
\* Mutant: more votes than the threshold, not at least the threshold.
promotesStrict(deal) == deal.votes > promotionThreshold

promotes(deal) == deal.votes >= promotionThreshold

\* Mutant: the promotion is not stamped.
PromotedUnstamped(deal) == [deal EXCEPT !.status = "promoted"]

Promoted(deal) == [deal EXCEPT !.status = "promoted", !.promotedAt = clock]

\* Mutant: setInterval for setTimeout, the check fires again and again.
timersAfterInterval(t) == timers

\* setTimeout runs its callback once: the timer is gone when it has fired.
timersAfter(t) == timers \ {t}

\* Mutant: the check does not look at the deal's status.
CheckPromotionAnyStatus(t) ==
    /\ t \in timers
    /\ clock >= t.due
    /\ timers' = timersAfter(t)
    /\ res' = 0
    /\ UNCHANGED <<users, alertsCreated, mode, clock>>
    /\ IF ~HasDeal(t.dealId)
       THEN /\ events' = <<>>
            /\ UNCHANGED <<deals, alerts, triggerCount, missed>>
       ELSE IF promotes(deals[t.dealId])
       THEN /\ deals' = [deals EXCEPT ![t.dealId] = Promoted(@)]
            /\ events' =
                  <<Event("DEAL_PROMOTED", t.dealId, "promoted")>>
                  \o alertEvents(alerts, Promoted(deals[t.dealId]), clock)
            /\ alerts' = alertsAfter(alerts, Promoted(deals[t.dealId]))
            /\ triggerCount' = Logged(events')
            /\ UNCHANGED missed
       ELSE /\ events' = <<>>
            /\ missed' = missed \cup {[dealId |-> t.dealId, mode |-> mode]}
            /\ UNCHANGED <<deals, alerts, triggerCount>>

CheckPromotion(t) ==
    /\ t \in timers
    /\ clock >= t.due
    /\ timers' = timersAfter(t)
    /\ res' = 0
    /\ UNCHANGED <<users, alertsCreated, mode, clock>>
    /\ IF ~HasDeal(t.dealId) \/ deals[t.dealId].status # "pending"
       THEN /\ events' = <<>>
            /\ UNCHANGED <<deals, alerts, triggerCount, missed>>
       ELSE IF promotes(deals[t.dealId])
       THEN /\ deals' = [deals EXCEPT ![t.dealId] = Promoted(@)]
            /\ events' =
                  <<Event("DEAL_PROMOTED", t.dealId, "promoted")>>
                  \o alertEvents(alerts, Promoted(deals[t.dealId]), clock)
            /\ alerts' = alertsAfter(alerts, Promoted(deals[t.dealId]))
            /\ triggerCount' = Logged(events')
            /\ UNCHANGED missed
       ELSE /\ events' = <<>>
            /\ missed' = missed \cup {[dealId |-> t.dealId, mode |-> mode]}
            /\ UNCHANGED <<deals, alerts, triggerCount>>

(***************************************************************************)
(* POST /api/deals/:dealId/vote                                            *)
(***************************************************************************)
\* Mutant: a vote counts double.
VoteTwice(dealId, userId) ==
    IF ~HasDeal(dealId) THEN Reply(404)
    ELSE IF ~HasUser(userId) THEN Reply(404)
    ELSE /\ deals' = [deals EXCEPT ![dealId].votes = @ + 2]
         /\ events' = <<Event("DEAL_UPDATED", dealId, deals[dealId].status)>>
         /\ res' = 200
         /\ UNCHANGED <<users, alerts, alertsCreated, mode, timers, clock,
                        triggerCount, missed>>

Vote(dealId, userId) ==
    IF ~HasDeal(dealId) THEN Reply(404)
    ELSE IF ~HasUser(userId) THEN Reply(404)
    ELSE /\ deals' = [deals EXCEPT ![dealId].votes = @ + 1]
         /\ events' = <<Event("DEAL_UPDATED", dealId, deals[dealId].status)>>
         /\ res' = 200
         /\ UNCHANGED <<users, alerts, alertsCreated, mode, timers, clock,
                        triggerCount, missed>>

(***************************************************************************)
(* checkConsensus                                                          *)
(***************************************************************************)
Count(deal, verdict) ==
    Cardinality({i \in 1..Len(deal.verifications) :
                    deal.verifications[i].verdict = verdict})

\* Mutant: more valid verifications than the threshold, not at least it.
validConsensusStrict(deal) ==
    Count(deal, "valid") > CONSENSUS_THRESHOLD /\ deal.status = "pending"

\* Mutant: the valid branch without its status guard.
validConsensusAnyStatus(deal) == Count(deal, "valid") >= CONSENSUS_THRESHOLD

validConsensus(deal) ==
    Count(deal, "valid") >= CONSENSUS_THRESHOLD /\ deal.status = "pending"

\* Mutant: no number of invalid verifications makes a consensus.
invalidConsensusNever(deal) == FALSE

\* Mutant: more than the threshold, not at least the threshold.
invalidConsensusStrict(deal) ==
    Count(deal, "invalid") > CONSENSUS_THRESHOLD /\ deal.status = "pending"

invalidConsensus(deal) ==
    Count(deal, "invalid") >= CONSENSUS_THRESHOLD /\ deal.status = "pending"

\* The deal as checkConsensus leaves it.
\* Mutant: the invalid branch comes first.
checkConsensusInvalidFirst(deal) ==
    IF invalidConsensus(deal)
    THEN [deal EXCEPT !.status = "rejected"]
    ELSE IF validConsensus(deal)
    THEN [deal EXCEPT !.status = "verified", !.verifiedAt = clock]
    ELSE deal

checkConsensus(deal) ==
    IF validConsensus(deal)
    THEN [deal EXCEPT !.status = "verified", !.verifiedAt = clock]
    ELSE IF invalidConsensus(deal)
    THEN [deal EXCEPT !.status = "rejected"]
    ELSE deal

\* Mutant: the alerts are checked after every verification of a deal with
\* enough valid ones, verified already or not.
checksAlertsWhenValid(deal) == Count(deal, "valid") >= CONSENSUS_THRESHOLD

\* Mutant: the alerts are checked after a rejection too.
checksAlertsOnRejection(deal) == validConsensus(deal) \/ invalidConsensus(deal)

\* checkConsensus calls checkAlertsForDeal: the call sits in the first branch.
checksAlerts(deal) == validConsensus(deal)

\* Mutant: the alerts are checked before the status message goes out.
consensusEventsAlertsFirst(deal) ==
    (IF checksAlerts(deal)
     THEN alertEvents(alerts, checkConsensus(deal), clock)
     ELSE <<>>)
    \o (IF validConsensus(deal)
        THEN <<Event("DEAL_VERIFIED", deal.id, "verified")>>
        ELSE IF invalidConsensus(deal)
        THEN <<Event("DEAL_REJECTED", deal.id, "rejected")>>
        ELSE <<>>)

\* The messages checkConsensus broadcasts, checkAlertsForDeal's included.
consensusEvents(deal) ==
    (IF validConsensus(deal)
     THEN <<Event("DEAL_VERIFIED", deal.id, "verified")>>
     ELSE IF invalidConsensus(deal)
     THEN <<Event("DEAL_REJECTED", deal.id, "rejected")>>
     ELSE <<>>)
    \o (IF checksAlerts(deal)
        THEN alertEvents(alerts, checkConsensus(deal), clock)
        ELSE <<>>)

(***************************************************************************)
(* POST /api/deals/:dealId/verify                                          *)
(***************************************************************************)
\* Mutant: the duplicate check never finds an earlier verification.
hasVerifiedNever(deal, userId) == FALSE

hasVerified(deal, userId) ==
    \E i \in 1..Len(deal.verifications) :
        deal.verifications[i].verifierId = userId.n

Recorded(deal, userId, verdict) ==
    [deal EXCEPT !.verifications =
        Append(@, [verifierId |-> userId.n, verdict |-> verdict])]

\* Mutant: the consensus check runs in either mode.
VerifiedAnyMode(deal, userId, verdict) ==
    checkConsensus(Recorded(deal, userId, verdict))

\* The deal after the handler: the verification pushed, then the consensus
\* check when the mode is decentralized.
Verified(deal, userId, verdict) ==
    IF mode = "decentralized"
    THEN checkConsensus(Recorded(deal, userId, verdict))
    ELSE Recorded(deal, userId, verdict)

\* Mutant: no DEAL_UPDATED after a verification that ends in a consensus.
VerifyQuietOnConsensus(dealId, userId, verdict) ==
    IF ~HasDeal(dealId) THEN Reply(404)
    ELSE IF ~HasUser(userId) THEN Reply(404)
    ELSE IF hasVerified(deals[dealId], userId) THEN Reply(409)
    ELSE /\ deals' = [deals EXCEPT ![dealId] = Verified(@, userId, verdict)]
         /\ IF mode = "decentralized"
            THEN /\ events' =
                       consensusEvents(Recorded(deals[dealId], userId, verdict))
                       \o (IF deals'[dealId].status = deals[dealId].status
                           THEN <<Event("DEAL_UPDATED", dealId,
                                        deals'[dealId].status)>>
                           ELSE <<>>)
                 /\ alerts' =
                       IF checksAlerts(Recorded(deals[dealId], userId, verdict))
                       THEN alertsAfter(alerts, deals'[dealId])
                       ELSE alerts
                 /\ triggerCount' = Logged(events')
            ELSE /\ events' =
                       <<Event("DEAL_UPDATED", dealId, deals'[dealId].status)>>
                 /\ UNCHANGED <<alerts, triggerCount>>
         /\ res' = 200
         /\ UNCHANGED <<users, alertsCreated, mode, timers, clock, missed>>

Verify(dealId, userId, verdict) ==
    IF ~HasDeal(dealId) THEN Reply(404)
    ELSE IF ~HasUser(userId) THEN Reply(404)
    ELSE IF hasVerified(deals[dealId], userId) THEN Reply(409)
    ELSE /\ deals' = [deals EXCEPT ![dealId] = Verified(@, userId, verdict)]
         /\ IF mode = "decentralized"
            THEN /\ events' =
                       consensusEvents(Recorded(deals[dealId], userId, verdict))
                       \o <<Event("DEAL_UPDATED", dealId, deals'[dealId].status)>>
                 /\ alerts' =
                       IF checksAlerts(Recorded(deals[dealId], userId, verdict))
                       THEN alertsAfter(alerts, deals'[dealId])
                       ELSE alerts
                 /\ triggerCount' = Logged(events')
            ELSE /\ events' =
                       <<Event("DEAL_UPDATED", dealId, deals'[dealId].status)>>
                 /\ UNCHANGED <<alerts, triggerCount>>
         /\ res' = 200
         /\ UNCHANGED <<users, alertsCreated, mode, timers, clock, missed>>

(***************************************************************************)
(* POST /api/alerts and DELETE /api/alerts/:alertId                        *)
(***************************************************************************)
NewAlert(body, id) ==
    [id |-> id,
     userId |-> body.userId.n,
     productKeywords |-> toLowerCase(body.productKeywords.s),
     maxPrice |-> parseFloat(body.maxPrice),
     minVerifications |->
        IF Falsy(body.minVerifications) THEN Num(DefaultMinVerifications)
        ELSE body.minVerifications,
     triggered |-> <<>>]

CreateAlert(body) ==
    IF Falsy(body.userId) \/ Falsy(body.productKeywords) \/ Falsy(body.maxPrice)
    THEN Reply(400)
    ELSE IF ~HasUser(body.userId) THEN Reply(404)
    ELSE /\ alerts' = Append(alerts, NewAlert(body, alertsCreated + 1))
         /\ alertsCreated' = alertsCreated + 1
         /\ events' = <<>>
         /\ res' = 200
         /\ UNCHANGED <<users, deals, mode, timers, clock, triggerCount, missed>>

RECURSIVE without(_, _)
without(als, alertId) ==
    IF als = <<>> THEN <<>>
    ELSE (IF Head(als).id = alertId THEN <<>> ELSE <<Head(als)>>)
         \o without(Tail(als), alertId)

DeleteAlert(alertId) ==
    /\ alerts' = without(alerts, alertId)
    /\ events' = <<>>
    /\ res' = 200
    /\ UNCHANGED <<users, deals, alertsCreated, mode, timers, clock,
                   triggerCount, missed>>

(***************************************************************************)
(* POST /api/config/mode                                                   *)
(***************************************************************************)
\* Mutant: the handler takes any value for the mode.
SetModeAny(m) ==
    /\ mode' = m
    /\ events' = <<[Event("CONFIG_UPDATED", 0, "") EXCEPT !.mode = m]>>
    /\ res' = 200
    /\ UNCHANGED <<users, deals, alerts, alertsCreated, timers, clock,
                   triggerCount, missed>>

SetMode(m) ==
    IF m # "centralized" /\ m # "decentralized" THEN Reply(400)
    ELSE /\ mode' = m
         /\ events' = <<[Event("CONFIG_UPDATED", 0, "") EXCEPT !.mode = m]>>
         /\ res' = 200
         /\ UNCHANGED <<users, deals, alerts, alertsCreated, timers, clock,
                        triggerCount, missed>>

(***************************************************************************)
(* GET /api/stats                                                          *)
(***************************************************************************)
\* deals.filter(d => d.status === status).length
StatusCount(status) ==
    Cardinality({d \in 1..Len(deals) : deals[d].status = status})

totalDeals == Len(deals)

\* The deals the two averages run over: deals.filter(d => d.promotedAt) and
\* deals.filter(d => d.verifiedAt).  A stamp is a Date.now(), a positive
\* number, so a deal passes the filter when the stamp is set.
promotedDeals == {d \in 1..Len(deals) : deals[d].promotedAt # None}

verifiedDeals == {d \in 1..Len(deals) : deals[d].verifiedAt # None}

(***************************************************************************)
(* Time passes.                                                            *)
(***************************************************************************)
Tick ==
    /\ clock' = clock + TickMs
    /\ events' = <<>>
    /\ res' = 0
    /\ UNCHANGED <<users, deals, alerts, alertsCreated, mode, timers,
                   triggerCount, missed>>


(***************************************************************************)
(* The requests the model sends.                                           *)
(***************************************************************************)
Lap == <<"L", "a", "p">>
Tv == <<"T", "V">>
Pc == <<"P", "C">>
Url == <<"u", "r", "l">>

\* The username the i-th registration asks for.
Name(i) == <<"u", Digits[i + 1]>>

\* A fresh username, and one that may be taken already.
Usernames == {Str(Name(Len(users) + 1)), Str(Name(1))}

UserIds == {Num(k) : k \in 1..Len(users)}

DealBody(title, price, category, submittedBy) ==
    [title |-> title, price |-> price, url |-> Str(Url),
     productCategory |-> category, submittedBy |-> submittedBy]

\* "Lap" in category "PC" at 500, and "TV" in no category at "501".
LapDeal == DealBody(Str(Lap), Num(500), Str(Pc), Num(1))

TvDeal == DealBody(Str(Tv), Str(<<"5", "0", "1">>), Undefined, Num(1))

AlertBody(userId, keywords, maxPrice, minVerifications) ==
    [userId |-> userId, productKeywords |-> keywords, maxPrice |-> maxPrice,
     minVerifications |-> minVerifications]

\* keywords "LAP", at most "500", one verification
LapAlert ==
    AlertBody(Num(1), Str(<<"L", "A", "P">>), Str(<<"5", "0", "0">>), Str(<<"1">>))

\* The alerts of the scenarios: each of the three conditions can fail on
\* its own against LapDeal or TvDeal.
MatchAlertBodies ==
    { AlertBody(Num(1), Str(<<"L", "A", "P">>), Str(<<"5", "0", "0">>), Str(<<>>)),
      AlertBody(Num(1), Str(<<"p", "c">>), Num(500), Num(1)),
      AlertBody(Num(1), Str(<<"t", "v">>), Str(<<"5", "0", "0">>), Str(<<"1">>)),
      AlertBody(Num(1), Str(<<"E">>), Num(501), Num(4)) }

\* Against LapDeal: a match from three verifications on, a match on the
\* category from one verification on, and no match on the keywords.
ConsensusAlertBodies ==
    { AlertBody(Num(1), Str(<<"L", "A", "P">>), Str(<<"5", "0", "0">>), Str(<<>>)),
      AlertBody(Num(1), Str(<<"p", "c">>), Num(500), Num(1)),
      AlertBody(Num(1), Str(<<"t", "v">>), Str(<<"5", "0", "0">>), Str(<<"1">>)) }

Verdicts == {"valid", "invalid"}

Modes == {"centralized", "decentralized", "hybrid"}

\* The bounds: the registries and the counters stay within them.
Room ==
    /\ Len(deals) <= MaxDeals
    /\ alertsCreated <= MaxAlerts
    /\ \A d \in 1..Len(deals) : deals[d].votes <= MaxVotes
    /\ clock <= MaxTicks * TickMs

(***************************************************************************)
(* Spec: every operation, in any order, from the state after construction. *)
(* The first user submits the deals and owns the alerts; every registered  *)
(* user votes and verifies.                                                *)
(***************************************************************************)
Init ==
    /\ users = <<>>
    /\ deals = <<>>
    /\ alerts = <<>>
    /\ alertsCreated = 0
    /\ mode = "centralized"
    /\ timers = {}
    /\ clock = 0
    /\ events = <<>>
    /\ res = 0
    /\ triggerCount = [p \in (1..MaxAlerts) \X (1..MaxDeals) |-> 0]
    /\ missed = {}

Next ==
    \/ \E username \in Usernames : Register(username) /\ Len(users') <= MaxUsers
    \/ HasUser(Num(1)) /\ SubmitDeal(LapDeal) /\ Room'
    \/ \E t \in timers : CheckPromotion(t)
    \/ \E dealId \in 1..Len(deals), userId \in UserIds :
          Vote(dealId, userId) /\ Room'
    \/ \E dealId \in 1..Len(deals), userId \in UserIds, verdict \in Verdicts :
          Verify(dealId, userId, verdict)
    \/ HasUser(Num(1)) /\ CreateAlert(LapAlert) /\ Room'
    \/ \E alertId \in 1..alertsCreated : DeleteAlert(alertId)
    \/ \E m \in Modes : SetMode(m)
    \/ Tick /\ Room'

Spec == Init /\ [][Next]_vars

(***************************************************************************)
(* The scenarios start after some users registered and the first of them   *)
(* submitted one deal at time 0.  The handlers treat all users alike, so   *)
(* the users verify in registration order: a verify request comes from the *)
(* next user who has not verified, or again from the first user.           *)
(***************************************************************************)
Registered(n) == [i \in 1..n |-> [username |-> Name(i)]]

Verifiers == {Num(Len(deals[1].verifications) + 1), Num(1)}

InitScenario(n, body, m) ==
    /\ users = Registered(n)
    /\ deals = <<NewDeal(body, 1, 0)>>
    /\ alerts = <<>>
    /\ alertsCreated = 0
    /\ mode = m
    /\ timers = IF m = "centralized"
                THEN {[dealId |-> 1, due |-> promotionDelaySimulated]}
                ELSE {}
    /\ clock = 0
    /\ events = <<Event("NEW_DEAL", 1, "pending")>>
    /\ res = 200
    /\ triggerCount = [p \in (1..MaxAlerts) \X (1..MaxDeals) |-> 0]
    /\ missed = {}

(***************************************************************************)
(* SpecMatch: the alert matcher on a promotion or a consensus, over deals  *)
(* and alerts that differ in keyword, price and verification count.  The   *)
(* deal was submitted in centralized mode, so its promotion check is       *)
(* scheduled; the first user casts the votes.                              *)
(***************************************************************************)
\* The first user verifies either way, the others find the deal valid.
MatchVerdicts(userId) == IF userId = Num(1) THEN Verdicts ELSE {"valid"}

InitMatch ==
    \E body \in {LapDeal, TvDeal} : InitScenario(MaxUsers, body, "centralized")

NextMatch ==
    \/ \E t \in timers : CheckPromotion(t)
    \/ Vote(1, Num(1)) /\ Room'
    \/ \E userId \in Verifiers :
          \E verdict \in MatchVerdicts(userId) : Verify(1, userId, verdict)
    \/ \E body \in MatchAlertBodies : CreateAlert(body) /\ Room'
    \/ \E m \in {"centralized", "decentralized"} : SetMode(m)
    \/ Tick /\ Room'

SpecMatch == InitMatch /\ [][NextMatch]_vars

(***************************************************************************)
(* SpecConsensus: MaxVerifiers users verify a deal that was submitted in   *)
(* decentralized mode, with any verdict, while alerts come and go and the  *)
(* mode is switched.                                                       *)
(***************************************************************************)
InitConsensus == InitScenario(MaxVerifiers, LapDeal, "decentralized")

NextConsensus ==
    \/ \E userId \in Verifiers, verdict \in Verdicts : Verify(1, userId, verdict)
    \/ \E body \in ConsensusAlertBodies : CreateAlert(body) /\ Room'
    \/ \E alertId \in 1..alertsCreated : DeleteAlert(alertId)
    \/ \E m \in Modes : SetMode(m)
    \/ Tick /\ Room'

SpecConsensus == InitConsensus /\ [][NextConsensus]_vars

(***************************************************************************)
(* SpecOrder: OrderVerifiers users verify, with any verdict, a deal that   *)
(* was submitted in centralized mode and gets no votes, while the mode is  *)
(* switched: verifications of both verdicts pile up before a consensus     *)
(* check runs.                                                             *)
(***************************************************************************)
InitOrder == InitScenario(OrderVerifiers, LapDeal, "centralized")

NextOrder ==
    \/ \E t \in timers : CheckPromotion(t)
    \/ \E userId \in Verifiers, verdict \in Verdicts : Verify(1, userId, verdict)
    \/ \E m \in {"centralized", "decentralized"} : SetMode(m)
    \/ Tick /\ Room'

SpecOrder == InitOrder /\ [][NextOrder]_vars

(***************************************************************************)
(* SpecVerdicts: the users verify a deal with the two verdicts, with       *)
(* another word and with no verdict at all; the handler takes the verdict  *)
(* from the request body as it comes.                                      *)
(***************************************************************************)
AnyVerdicts == Verdicts \cup {"unsure", "undefined"}

InitVerdicts ==
    \E m \in {"centralized", "decentralized"} :
        InitScenario(MaxUsers, LapDeal, m)

NextVerdicts ==
    \/ \E t \in timers : CheckPromotion(t)
    \/ \E userId \in Verifiers, verdict \in AnyVerdicts :
          Verify(1, userId, verdict)
    \/ \E m \in {"centralized", "decentralized"} : SetMode(m)
    \/ Tick /\ Room'

SpecVerdicts == InitVerdicts /\ [][NextVerdicts]_vars

(***************************************************************************)
(* SpecRegister: registrations under names with and without blanks around  *)
(* them, under a blank name and under no name.                             *)
(***************************************************************************)
PaddedUsernames ==
    UNION { { Str(Name(i)), Str(<<" ">> \o Name(i)), Str(Name(i) \o <<" ">>) } :
            i \in 1..MaxUsers }
    \cup {Str(<<" ">>), Str(<<>>), Undefined}

NextRegister ==
    \E username \in PaddedUsernames :
        Register(username) /\ Len(users') <= MaxUsers

SpecRegister == Init /\ [][NextRegister]_vars

(***************************************************************************)
(* SpecDecentral: as SpecConsensus, and the mode stays decentralized.      *)
(***************************************************************************)
NextDecentral ==
    \/ \E userId \in Verifiers, verdict \in Verdicts : Verify(1, userId, verdict)
    \/ \E body \in ConsensusAlertBodies : CreateAlert(body) /\ Room'
    \/ \E alertId \in 1..alertsCreated : DeleteAlert(alertId)
    \/ Tick /\ Room'

SpecDecentral == InitConsensus /\ [][NextDecentral]_vars

(***************************************************************************)
(* SpecErrors: two registered users send well-formed requests and requests *)
(* that miss a field or name a deal or a user that does not exist.         *)
(***************************************************************************)
\* An id no user has, and the ids of the callers: two users, a stranger
\* and a request without a user id.
Stranger == Num(MaxUsers + 1)

Callers == {Num(1), Num(2), Stranger, Undefined}

\* The ids of the deals asked for: the last one does not exist.
DealIds == 1..(MaxDeals + 1)

BadDealBodies ==
    { [LapDeal EXCEPT !.title = Undefined],
      [LapDeal EXCEPT !.title = Str(<<>>)],
      [LapDeal EXCEPT !.price = Undefined],
      [LapDeal EXCEPT !.price = Num(0)],
      [LapDeal EXCEPT !.url = Undefined],
      [LapDeal EXCEPT !.submittedBy = Undefined],
      [LapDeal EXCEPT !.submittedBy = Stranger] }

\* Deals with a price that is given and is not a positive number: a
\* negative number, the string "0" and a string that is no number.
OddPriceBodies ==
    { [LapDeal EXCEPT !.price = Num(-5)],
      [LapDeal EXCEPT !.price = Str(<<"0">>)],
      [LapDeal EXCEPT !.price = Str(<<"L">>)] }

BadAlertBodies ==
    { [LapAlert EXCEPT !.userId = Undefined],
      [LapAlert EXCEPT !.productKeywords = Str(<<>>)],
      [LapAlert EXCEPT !.maxPrice = Undefined],
      [LapAlert EXCEPT !.maxPrice = Num(0)],
      [LapAlert EXCEPT !.userId = Stranger] }

InitErrors ==
    /\ users = Registered(2)
    /\ deals = <<>>
    /\ alerts = <<>>
    /\ alertsCreated = 0
    /\ mode = "centralized"
    /\ timers = {}
    /\ clock = 0
    /\ events = <<>>
    /\ res = 200
    /\ triggerCount = [p \in (1..MaxAlerts) \X (1..MaxDeals) |-> 0]
    /\ missed = {}

NextErrors ==
    \/ \E body \in {LapDeal} \cup OddPriceBodies \cup BadDealBodies :
          SubmitDeal(body) /\ Room'
    \/ \E t \in timers : CheckPromotion(t)
    \/ \E dealId \in DealIds, userId \in Callers :
          Vote(dealId, userId) /\ Room'
    \/ \E dealId \in DealIds, userId \in Callers, verdict \in Verdicts :
          Verify(dealId, userId, verdict)
    \/ \E body \in {LapAlert} \cup BadAlertBodies : CreateAlert(body) /\ Room'
    \/ \E m \in Modes : SetMode(m)
    \/ Tick /\ Room'

SpecErrors == InitErrors /\ [][NextErrors]_vars


(***************************************************************************)
(* Properties.                                                             *)
(***************************************************************************)
Terminal == {"promoted", "verified", "rejected"}

\* A verification was recorded on deal d in this step.
RecordedOn(d) ==
    Len(deals'[d].verifications) = Len(deals[d].verifications) + 1

\* The ALERT_TRIGGERED messages among evs for alert id a and deal d.
TriggersIn(evs, a, d) ==
    {i \in 1..Len(evs) :
        /\ evs[i].type = "ALERT_TRIGGERED"
        /\ evs[i].alertId = a
        /\ evs[i].dealId = d}

\* C1: a deal's status changes only from pending to promoted, verified or
\* rejected; a promoted, verified or rejected deal keeps its status through
\* every later operation, and no deal is ever removed.
C1_StatusOneWay ==
    [][ /\ Len(deals') >= Len(deals)
        /\ \A d \in 1..Len(deals) :
              deals'[d].status # deals[d].status
              => /\ deals[d].status = "pending"
                 /\ deals'[d].status \in Terminal ]_vars

\* A vote or a verification has just been recorded on a deal that had left
\* pending before, and the deal kept its status.
C1_Witness ==
    \E d \in 1..Len(deals) :
        /\ deals[d].status = "promoted"
        /\ Count(deals[d], "valid") >= CONSENSUS_THRESHOLD
        /\ mode = "decentralized"
        /\ events = <<Event("DEAL_UPDATED", d, "promoted")>>

\* C2: for every alert and deal at most one ALERT_TRIGGERED message is ever
\* broadcast, and the deal's id is at most once in the alert's triggered
\* list.
C2_AtMostOnce ==
    /\ \A p \in DOMAIN triggerCount : triggerCount[p] <= 1
    /\ \A a \in 1..Len(alerts) :
          \A i, j \in 1..Len(alerts[a].triggered) :
              alerts[a].triggered[i] = alerts[a].triggered[j] => i = j

\* An alert has fired for a deal, and a verification was recorded for that
\* deal afterwards.
C2_Witness ==
    \E a \in 1..Len(alerts), d \in 1..Len(deals) :
        /\ alerts[a].triggered = <<d>>
        /\ triggerCount[<<alerts[a].id, d>>] = 1
        /\ deals[d].status = "promoted"
        /\ Count(deals[d], "valid") >= CONSENSUS_THRESHOLD
        /\ mode = "decentralized"
        /\ events = <<Event("DEAL_UPDATED", d, "promoted")>>


\* The messages of type `type` among evs that are about deal d.
EventsOf(evs, type, d) ==
    {i \in 1..Len(evs) : evs[i].type = type /\ evs[i].dealId = d}

\* C3: a verification recorded on a pending deal while the mode is
\* decentralized makes the deal verified, stamps verifiedAt and broadcasts
\* one DEAL_VERIFIED if the deal then has 3 or more valid verifications;
\* otherwise makes it rejected and broadcasts one DEAL_REJECTED if it has 3
\* or more invalid ones; otherwise leaves it pending.
C3_ConsensusRule ==
    [][ \A d \in 1..Len(deals) :
          (RecordedOn(d) /\ mode = "decentralized" /\ deals[d].status = "pending")
          => IF Count(deals'[d], "valid") >= 3
             THEN /\ deals'[d].status = "verified"
                  /\ deals'[d].verifiedAt = clock
                  /\ Cardinality(EventsOf(events', "DEAL_VERIFIED", d)) = 1
                  /\ EventsOf(events', "DEAL_REJECTED", d) = {}
             ELSE IF Count(deals'[d], "invalid") >= 3
             THEN /\ deals'[d].status = "rejected"
                  /\ Cardinality(EventsOf(events', "DEAL_REJECTED", d)) = 1
                  /\ EventsOf(events', "DEAL_VERIFIED", d) = {}
             ELSE /\ deals'[d].status = "pending"
                  /\ EventsOf(events', "DEAL_VERIFIED", d) = {}
                  /\ EventsOf(events', "DEAL_REJECTED", d) = {} ]_vars

\* The third invalid verification has just been recorded in decentralized
\* mode on a deal with two valid ones, and the deal is rejected.
C3_Witness ==
    /\ mode = "decentralized"
    /\ deals[1].status = "rejected"
    /\ Count(deals[1], "invalid") = 3
    /\ Count(deals[1], "valid") = 2
    /\ deals[1].verifications[5].verdict = "invalid"
    /\ events # <<>>
    /\ events[1] = Event("DEAL_REJECTED", 1, "rejected")


\* C4: an ALERT_TRIGGERED message about a deal is broadcast only in the
\* step that takes the deal from pending to promoted or verified; so every
\* deal id in a triggered list is that of a promoted or verified deal, and
\* a pending or rejected deal has no ALERT_TRIGGERED message at all.
C4_OnlyOnSuccess ==
    /\ [][ \A i \in 1..Len(events') :
             events'[i].type = "ALERT_TRIGGERED"
             => /\ events'[i].dealId \in 1..Len(deals)
                /\ deals[events'[i].dealId].status = "pending"
                /\ deals'[events'[i].dealId].status \in {"promoted", "verified"} ]_vars
    /\ [](\A a \in 1..Len(alerts) :
            \A i \in 1..Len(alerts[a].triggered) :
               /\ alerts[a].triggered[i] \in 1..Len(deals)
               /\ deals[alerts[a].triggered[i]].status \in {"promoted", "verified"})
    /\ [](\A d \in 1..Len(deals) :
            deals[d].status \in {"pending", "rejected"}
            => \A a \in 1..MaxAlerts : triggerCount[<<a, d>>] = 0)

\* A deal has just been rejected while an alert that matches it on keywords,
\* price and verification count stood, and the alert has not fired.
C4_Witness ==
    \E a \in 1..Len(alerts), d \in 1..Len(deals) :
        /\ deals[d].status = "rejected"
        /\ events # <<>>
        /\ events[1] = Event("DEAL_REJECTED", d, "rejected")
        /\ includes(toLowerCase(deals[d].title), alerts[a].productKeywords)
        /\ LessEq(deals[d].price, alerts[a].maxPrice)
        /\ GreaterEq(Num(Len(deals[d].verifications)), alerts[a].minVerifications)
        /\ alerts[a].triggered = <<>>
        /\ triggerCount[<<alerts[a].id, d>>] = 0


\* The deal's id is in the alert's triggered list.
TriggeredFor(alert, d) ==
    \E i \in 1..Len(alert.triggered) : alert.triggered[i] = d

\* The match of section 4.3: the keywords are in the title or in the
\* category whatever the case, the price is at most the maximum, and the
\* verifications of either verdict number at least the minimum.
Matches(alert, deal) ==
    /\ \/ includes(toLowerCase(deal.title), toLowerCase(alert.productKeywords))
       \/ includes(toLowerCase(deal.productCategory),
                   toLowerCase(alert.productKeywords))
    /\ LessEq(deal.price, alert.maxPrice)
    /\ GreaterEq(Num(Len(deal.verifications)), alert.minVerifications)

\* Deal d goes from pending to promoted or verified in this step.
Succeeds(d) ==
    /\ deals[d].status = "pending"
    /\ deals'[d].status \in {"promoted", "verified"}

\* C5: when a deal goes from pending to promoted or verified, every alert
\* that exists and has not triggered for the deal fires if and only if it
\* matches the deal: then one ALERT_TRIGGERED message goes out for it and
\* the deal's id enters its triggered list; otherwise neither happens.
C5_MatchPredicate ==
    [][ \A d \in 1..Len(deals) :
          Succeeds(d)
          => /\ Len(alerts') = Len(alerts)
             /\ \A a \in 1..Len(alerts) :
                   ~TriggeredFor(alerts[a], d)
                   => /\ alerts'[a].id = alerts[a].id
                      /\ TriggeredFor(alerts'[a], d) <=> Matches(alerts[a], deals'[d])
                      /\ Cardinality(TriggersIn(events', alerts[a].id, d))
                            = IF Matches(alerts[a], deals'[d]) THEN 1 ELSE 0 ]_vars

\* A deal has just been promoted with one invalid and two valid
\* verifications, and an alert that asks for three verifications fired.
C5_Witness ==
    \E a \in 1..Len(alerts) :
        /\ events # <<>>
        /\ events[1] = Event("DEAL_PROMOTED", 1, "promoted")
        /\ Len(events) = 2
        /\ events[2].type = "ALERT_TRIGGERED"
        /\ events[2].alertId = alerts[a].id
        /\ alerts[a].minVerifications = Num(3)
        /\ alerts[a].triggered = <<1>>
        /\ Count(deals[1], "invalid") = 1
        /\ Count(deals[1], "valid") = 2


\* The third valid verification is recorded in this step on the pending
\* deal d, in decentralized mode.
ThirdValid(d) ==
    /\ mode = "decentralized"
    /\ deals[d].status = "pending"
    /\ RecordedOn(d)
    /\ deals'[d].verifications[Len(deals'[d].verifications)].verdict = "valid"
    /\ Count(deals'[d], "valid") = 3

\* The alerts that exist and match deal d as the step leaves it.
MatchingAlerts(d) == {a \in 1..Len(alerts) : Matches(alerts[a], deals'[d])}

\* evs[from..to] are ALERT_TRIGGERED messages about deal d, one for each
\* matching alert, each with a latency of 0 or more.
OneTriggerEach(evs, from, to, d) ==
    /\ \A i \in from..to :
          /\ evs[i].type = "ALERT_TRIGGERED"
          /\ evs[i].dealId = d
          /\ evs[i].latency >= 0
          /\ \E a \in MatchingAlerts(d) : alerts[a].id = evs[i].alertId
    /\ \A a \in MatchingAlerts(d) :
          Cardinality({i \in from..to : evs[i].alertId = alerts[a].id}) = 1

\* C6 as stated: the messages of the step that records the third valid
\* verification are exactly one DEAL_VERIFIED followed by one
\* ALERT_TRIGGERED for each matching alert.
C6_Original ==
    [][ \A d \in 1..Len(deals) :
          ThirdValid(d)
          => /\ Len(events') = 1 + Cardinality(MatchingAlerts(d))
             /\ events'[1] = Event("DEAL_VERIFIED", d, "verified")
             /\ OneTriggerEach(events', 2, Len(events'), d) ]_vars

\* C6 amended: the messages of the step that records the third valid
\* verification are one DEAL_VERIFIED, then one ALERT_TRIGGERED with
\* latency >= 0 for each matching alert, then one DEAL_UPDATED that carries
\* the verified deal.
C6_VerifiedThenAlerts ==
    [][ \A d \in 1..Len(deals) :
          ThirdValid(d)
          => /\ Len(events') = 2 + Cardinality(MatchingAlerts(d))
             /\ events'[1] = Event("DEAL_VERIFIED", d, "verified")
             /\ OneTriggerEach(events', 2, Len(events') - 1, d)
             /\ events'[Len(events')] = Event("DEAL_UPDATED", d, "verified") ]_vars

\* The third valid verification has just verified the deal some time after
\* its submission, and the one matching alert fired after DEAL_VERIFIED.
C6_Witness ==
    /\ mode = "decentralized"
    /\ deals[1].status = "verified"
    /\ Count(deals[1], "valid") = 3
    /\ Len(events) = 3
    /\ events[1] = Event("DEAL_VERIFIED", 1, "verified")
    /\ events[2].type = "ALERT_TRIGGERED"
    /\ events[2].latency > 0
    /\ events[3] = Event("DEAL_UPDATED", 1, "verified")


\* The deal's price is a number above the alert's maximum price.
PriceAbove(deal, alert) ==
    /\ deal.price.t = "number"
    /\ alert.maxPrice.t = "number"
    /\ deal.price.n > alert.maxPrice.n

\* C7: an alert never fires for a deal whose price is above the alert's
\* maximum price: no ALERT_TRIGGERED message for the pair is ever broadcast
\* and the deal's id is never in the alert's triggered list.
C7_PriceBound ==
    \A a \in 1..Len(alerts), d \in 1..Len(deals) :
        PriceAbove(deals[d], alerts[a])
        => /\ ~TriggeredFor(alerts[a], d)
           /\ triggerCount[<<alerts[a].id, d>>] = 0

\* The deal at 501 has just been promoted while an alert with maximum 500
\* stood that matches its title and asks for no more verifications than it
\* has.
C7_Witness ==
    \E a \in 1..Len(alerts) :
        /\ deals[1].price = Num(501)
        /\ alerts[a].maxPrice = Num(500)
        /\ includes(toLowerCase(deals[1].title), alerts[a].productKeywords)
        /\ GreaterEq(Num(Len(deals[1].verifications)), alerts[a].minVerifications)
        /\ events = <<Event("DEAL_PROMOTED", 1, "promoted")>>


\* The deals whose promotion check fired in centralized mode and found the
\* deal pending with fewer votes than the threshold.
MissedCentralized == {m.dealId : m \in {x \in missed : x.mode = "centralized"}}

\* C8 as stated: a deal whose check fired in centralized mode with too few
\* votes is pending in every later state.
C8_Original == \A d \in MissedCentralized : deals[d].status = "pending"

\* C8 amended: a deal whose check fired in centralized mode with too few
\* votes has no check scheduled any more and is never promoted; it leaves
\* pending only in a step that records a verification while the mode is
\* decentralized, and then to verified or rejected.
C8_NeverPromoted ==
    /\ [](\A d \in MissedCentralized :
            /\ deals[d].status # "promoted"
            /\ \A t \in timers : t.dealId # d)
    /\ [][ \A d \in MissedCentralized :
             (deals[d].status = "pending" /\ deals'[d].status # "pending")
             => /\ mode = "decentralized"
                /\ RecordedOn(d)
                /\ deals'[d].status \in {"verified", "rejected"} ]_vars

\* The check of a deal found fewer than 5 votes, the votes arrived later
\* and the deal is still pending in centralized mode.
C8_Witness ==
    \E d \in MissedCentralized :
        /\ deals[d].votes >= promotionThreshold
        /\ deals[d].status = "pending"
        /\ mode = "centralized"
        /\ events = <<Event("DEAL_UPDATED", d, "pending")>>


\* The promotion check of timer t runs in this step.
Fires(t) == t \in timers /\ t \notin timers'

\* C9: when the promotion check of a pending deal fires, a deal with 5 or
\* more votes becomes promoted, is stamped with the time of the check and
\* exactly one DEAL_PROMOTED is broadcast for it; with fewer than 5 votes
\* the deals and alerts stay as they were and nothing is broadcast.
C9_PromotionRule ==
    [][ \A t \in timers :
          (Fires(t) /\ deals[t.dealId].status = "pending")
          => IF deals[t.dealId].votes >= promotionThreshold
             THEN /\ deals'[t.dealId].status = "promoted"
                  /\ deals'[t.dealId].promotedAt = clock
                  /\ Cardinality(EventsOf(events', "DEAL_PROMOTED",
                                          t.dealId)) = 1
                  /\ events'[1].type = "DEAL_PROMOTED"
             ELSE /\ deals' = deals
                  /\ alerts' = alerts
                  /\ events' = <<>> ]_vars

\* A check has just promoted a deal that had exactly 5 votes.
C9_Witness ==
    /\ events # <<>>
    /\ events[1].type = "DEAL_PROMOTED"
    /\ deals[events[1].dealId].votes = promotionThreshold
    /\ deals[events[1].dealId].status = "promoted"
    /\ deals[events[1].dealId].promotedAt = clock

\* A user has at most one verification on each deal.
NoDuplicateVerifier ==
    \A d \in 1..Len(deals) :
        \A i, j \in 1..Len(deals[d].verifications) :
            deals[d].verifications[i].verifierId
              = deals[d].verifications[j].verifierId => i = j

\* A verification by user u on deal d is attempted in this step.
Attempt(d, u) == Verify(d, Num(u), "valid") \/ Verify(d, Num(u), "invalid")

\* C10: a verification attempted by a user who has already verified the
\* deal is answered 409, leaves the deals, their verifications and statuses
\* and the alerts as they were and broadcasts nothing; so no deal ever
\* holds two verifications of one user.
C10_DuplicateRejected ==
    /\ []NoDuplicateVerifier
    /\ [][ \A d \in 1..Len(deals) : \A u \in 1..Len(users) :
             (Attempt(d, u) /\ hasVerified(deals[d], Num(u)))
             => /\ res' = 409
                /\ deals' = deals
                /\ alerts' = alerts
                /\ events' = <<>> ]_vars

\* A second verification by a user who has one on the deal was refused.
C10_Witness ==
    /\ res = 409
    /\ \E d \in 1..Len(deals) :
          /\ deals[d].status = "pending"
          /\ Len(deals[d].verifications) >= 2
          /\ hasVerified(deals[d], Num(1))


\* A deal is added to the registry in this step.
Submitted == Len(deals') = Len(deals) + 1

\* The promotion checks scheduled for deal d and not yet run.
ChecksOf(ts, d) == {t \in ts : t.dealId = d}

C12_Original ==
    [][ \A d \in 1..Len(deals) :
          (deals[d].status = "pending" /\ deals'[d].status = "promoted")
          => mode = "centralized" ]_vars


\* C13: a deal goes from pending to verified or rejected only in a step
\* that records a verification on it while the mode is decentralized; a
\* verification recorded in any other mode is stored and leaves the deal's
\* status as it was, whatever the counts of valid and invalid verifications.
C13_ConsensusOnlyDecentralized ==
    [][ \A d \in 1..Len(deals) :
          /\ (deals[d].status = "pending"
              /\ deals'[d].status \in {"verified", "rejected"})
             => (mode = "decentralized" /\ RecordedOn(d))
          /\ (RecordedOn(d) /\ mode # "decentralized")
             => /\ deals'[d].status = deals[d].status
                /\ deals'[d].verifiedAt = deals[d].verifiedAt ]_vars

\* The third valid verification was just recorded in centralized mode and
\* the deal is still pending.
C13_Witness ==
    /\ mode = "centralized"
    /\ \E d \in 1..Len(deals) :
          /\ deals[d].status = "pending"
          /\ Count(deals[d], "valid") >= CONSENSUS_THRESHOLD
          /\ events = <<Event("DEAL_UPDATED", d, "pending")>>


\* C14: a request to set the mode to a value other than centralized or
\* decentralized is answered 400, leaves the mode as it was and broadcasts
\* nothing; with one of the two values the mode becomes that value and one
\* CONFIG_UPDATED is broadcast.  Either way the deals, the alerts with
\* their triggered lists and the scheduled promotion checks stay as they
\* were.
C14_SetModeFrame ==
    [][ \A m \in Modes :
          SetMode(m)
          => /\ IF m \in {"centralized", "decentralized"}
                THEN /\ mode' = m
                     /\ Len(events') = 1
                     /\ events'[1].type = "CONFIG_UPDATED"
                     /\ events'[1].mode = m
                ELSE /\ mode' = mode
                     /\ events' = <<>>
                     /\ res' = 400
             /\ deals' = deals
             /\ alerts' = alerts
             /\ timers' = timers
             /\ users' = users ]_vars

\* The mode was just switched to decentralized over a pending deal that
\* holds three valid verifications and has its promotion check scheduled:
\* the deal is still pending.
C14_Witness ==
    /\ mode = "decentralized"
    /\ events # <<>>
    /\ events[1].type = "CONFIG_UPDATED"
    /\ \E d \in 1..Len(deals) :
          /\ deals[d].status = "pending"
          /\ Count(deals[d], "valid") >= CONSENSUS_THRESHOLD
          /\ ChecksOf(timers, d) # {}


\* A request that misses a field or names an unknown deal or user is
\* handled in this step.
BadRequest ==
    \/ \E body \in BadDealBodies : SubmitDeal(body)
    \/ \E dealId \in DealIds, userId \in Callers :
          (~HasDeal(dealId) \/ userId \in {Stranger, Undefined})
          /\ (\/ Vote(dealId, userId)
              \/ \E verdict \in Verdicts : Verify(dealId, userId, verdict))
    \/ \E body \in BadAlertBodies : CreateAlert(body)

\* Nothing but the answer changes in this step.
NothingChanged ==
    /\ users' = users
    /\ deals' = deals
    /\ alerts' = alerts
    /\ alertsCreated' = alertsCreated
    /\ mode' = mode
    /\ timers' = timers
    /\ events' = <<>>

\* C15: a submission, vote, verification or alert creation that misses a
\* field or names an unknown deal or user is answered 400 or 404; a request
\* answered 400, 404 or 409 leaves users, deals, alerts and mode as they
\* were, schedules no promotion check and broadcasts nothing.
C15_FailuresChangeNothing ==
    [][ /\ BadRequest => res' \in {400, 404}
        /\ res' \in {400, 404, 409} => NothingChanged ]_vars

\* A request was just refused as naming an unknown deal or user, with a
\* voted deal, its promotion check and an alert in place.
C15_Witness ==
    /\ res = 404
    /\ events = <<>>
    /\ alerts # <<>>
    /\ timers # {}
    /\ \E d \in 1..Len(deals) : deals[d].votes > 0


\* C16 as stated: a submission whose price is not a positive number creates
\* no deal, so every deal in the registry has a price greater than 0.
C16_Original ==
    \A d \in 1..Len(deals) :
        deals[d].price.t = "number" /\ deals[d].price.n > 0


\* The alert's keywords are in the deal's title or category and the deal's
\* price is at most the alert's maximum.
KeywordAndPriceMatch(alert, deal) ==
    /\ \/ includes(toLowerCase(deal.title), toLowerCase(alert.productKeywords))
       \/ includes(toLowerCase(deal.productCategory),
                   toLowerCase(alert.productKeywords))
    /\ LessEq(deal.price, alert.maxPrice)

\* C17 as stated: in centralized mode, when the promotion check of a
\* pending deal with 5 or more votes fires, the deal is promoted and every
\* alert whose keywords and maximum price match it is triggered in that
\* step, not having been triggered for the deal before.
C17_Original ==
    [][ \A t \in timers :
          (/\ Fires(t)
           /\ mode = "centralized"
           /\ deals[t.dealId].status = "pending"
           /\ deals[t.dealId].votes >= promotionThreshold)
          => /\ deals'[t.dealId].status = "promoted"
             /\ \A a \in 1..Len(alerts) :
                   KeywordAndPriceMatch(alerts[a], deals[t.dealId])
                   => /\ ~TriggeredFor(alerts[a], t.dealId)
                      /\ TriggeredFor(alerts'[a], t.dealId)
                      /\ Cardinality(TriggersIn(events', alerts[a].id,
                                                t.dealId)) = 1 ]_vars


\* C18: a vote by a known user on a known deal adds exactly 1 to the
\* deal's votes, whatever the mode, the deal's status and the votes the
\* user cast before; it leaves every other field of every deal, the alerts
\* and the scheduled checks as they were and broadcasts one DEAL_UPDATED.
C18_VoteAddsOne ==
    [][ \A d \in 1..Len(deals) : \A u \in 1..Len(users) :
          Vote(d, Num(u))
          => /\ deals'[d].votes = deals[d].votes + 1
             /\ deals' = [deals EXCEPT ![d].votes = deals'[d].votes]
             /\ alerts' = alerts
             /\ timers' = timers
             /\ mode' = mode
             /\ events' = <<Event("DEAL_UPDATED", d, deals[d].status)>> ]_vars

\* The first user alone cast five votes on a deal nobody verified, and the
\* deal was promoted on them.
C18_Witness ==
    /\ deals[1].votes = promotionThreshold
    /\ deals[1].status = "promoted"
    /\ deals[1].verifications = <<>>


\* C19: when a verification is recorded in decentralized mode on a pending
\* deal and leaves it with 3 or more valid and 3 or more invalid
\* verifications, the deal becomes verified, with one DEAL_VERIFIED and no
\* DEAL_REJECTED broadcast.
C19_ValidFirst ==
    [][ \A d \in 1..Len(deals) :
          (/\ RecordedOn(d)
           /\ mode = "decentralized"
           /\ deals[d].status = "pending"
           /\ Count(deals'[d], "valid") >= CONSENSUS_THRESHOLD
           /\ Count(deals'[d], "invalid") >= CONSENSUS_THRESHOLD)
          => /\ deals'[d].status = "verified"
             /\ deals'[d].verifiedAt = clock
             /\ Cardinality(EventsOf(events', "DEAL_VERIFIED", d)) = 1
             /\ EventsOf(events', "DEAL_REJECTED", d) = {} ]_vars

\* A deal was just verified on a verification that left it with three
\* valid and three invalid ones.
C19_Witness ==
    /\ events # <<>>
    /\ events[1].type = "DEAL_VERIFIED"
    /\ deals[1].status = "verified"
    /\ Count(deals[1], "valid") >= CONSENSUS_THRESHOLD
    /\ Count(deals[1], "invalid") >= CONSENSUS_THRESHOLD


\* C20: a promotion check that runs for a deal that is not pending changes
\* no deal, no alert and no configuration and broadcasts nothing.
C20_NoOpWhenNotPending ==
    [][ \A t \in timers :
          (Fires(t) /\ deals[t.dealId].status # "pending")
          => /\ deals' = deals
             /\ alerts' = alerts
             /\ alertsCreated' = alertsCreated
             /\ mode' = mode
             /\ users' = users
             /\ events' = <<>> ]_vars

\* The check of a deal ran after the deal, with 5 votes, had been verified:
\* it neither promoted the deal nor found it pending and short of votes.
C20_Witness ==
    /\ ChecksOf(timers, 1) = {}
    /\ missed = {}
    /\ deals[1].status = "verified"
    /\ deals[1].votes >= promotionThreshold
    /\ deals[1].promotedAt = None
    /\ alerts # <<>>


\* A vote was counted on deal d in this step.
VotedOn(d) == deals'[d].votes = deals[d].votes + 1

\* C21 as stated: a verification that takes a deal from pending to verified
\* or rejected broadcasts no DEAL_UPDATED in its step.
C21_Original ==
    [][ \A d \in 1..Len(deals) :
          (/\ deals[d].status = "pending"
           /\ deals'[d].status \in {"verified", "rejected"})
          => EventsOf(events', "DEAL_UPDATED", d) = {} ]_vars

\* C21 amended: every counted vote and every recorded verification
\* broadcasts exactly one DEAL_UPDATED, carrying the deal as the step
\* leaves it, as the last message of its step, also when the verification
\* takes the deal to verified or rejected; no other step broadcasts one.
C21_UpdatedAfterEveryChange ==
    [][ \A d \in 1..Len(deals) :
          /\ (VotedOn(d) \/ RecordedOn(d))
             => /\ events' # <<>>
                /\ events'[Len(events')]
                      = Event("DEAL_UPDATED", d, deals'[d].status)
                /\ Cardinality(EventsOf(events', "DEAL_UPDATED", d)) = 1
          /\ EventsOf(events', "DEAL_UPDATED", d) # {}
             => (VotedOn(d) \/ RecordedOn(d)) ]_vars

\* A verification has just rejected the deal: DEAL_REJECTED went out and,
\* after it, DEAL_UPDATED with the rejected deal.
C21_Witness ==
    /\ events = <<Event("DEAL_REJECTED", 1, "rejected"),
                  Event("DEAL_UPDATED", 1, "rejected")>>
    /\ deals[1].status = "rejected"


\* C22: the clock never goes back; every ALERT_TRIGGERED message carries as
\* latency the time of its step less the deal's submission time, which is 0
\* or more; a promoted deal was promoted no earlier than the promotion delay
\* after its submission, so the latency in an ALERT_TRIGGERED message about
\* a promoted deal is at least the promotion delay.
C22_Latency ==
    /\ [][clock' >= clock]_vars
    /\ [](\A i \in 1..Len(events) :
            events[i].type = "ALERT_TRIGGERED"
            => /\ events[i].latency
                     = clock - deals[events[i].dealId].timestamp
               /\ events[i].latency >= 0
               /\ deals[events[i].dealId].status = "promoted"
                  => events[i].latency >= promotionDelaySimulated)
    /\ [](\A d \in 1..Len(deals) :
            deals[d].status = "promoted"
            => deals[d].promotedAt
                  >= deals[d].timestamp + promotionDelaySimulated)

\* A deal submitted some time after the start was verified later still, and
\* the alert fired with the time between the two as its latency.
C22_Witness ==
    \E i \in 1..Len(events) :
        /\ events[i].type = "ALERT_TRIGGERED"
        /\ deals[events[i].dealId].timestamp > 0
        /\ events[i].latency > 0


\* C23 as stated: every verification recorded on a deal has the verdict
\* valid or invalid, so a deal's verifications number as many as its valid
\* and its invalid ones together.
C23_Original ==
    \A d \in 1..Len(deals) :
        /\ \A i \in 1..Len(deals[d].verifications) :
              deals[d].verifications[i].verdict \in Verdicts
        /\ Len(deals[d].verifications)
              = Count(deals[d], "valid") + Count(deals[d], "invalid")


\* C24 as stated: no two users in the registry have the same stored
\* username.
C24_Original ==
    \A i, j \in 1..Len(users) :
        users[i].username = users[j].username => i = j


\* C25 as stated: while the mode is decentralized every pending deal has
\* fewer than 3 valid and fewer than 3 invalid verifications.
C25_Original ==
    mode = "decentralized"
    => \A d \in 1..Len(deals) :
          deals[d].status = "pending"
          => /\ Count(deals[d], "valid") < CONSENSUS_THRESHOLD
             /\ Count(deals[d], "invalid") < CONSENSUS_THRESHOLD

\* C25 amended: a deal that a verification recorded in decentralized mode
\* leaves pending has fewer than 3 valid and fewer than 3 invalid
\* verifications; a pending deal with 3 or more of either has them from
\* steps taken in centralized mode and keeps them over a mode switch.
C25_PendingAfterCheck ==
    [][ \A d \in 1..Len(deals) :
          /\ (RecordedOn(d) /\ mode = "decentralized"
              /\ deals'[d].status = "pending")
             => /\ Count(deals'[d], "valid") < CONSENSUS_THRESHOLD
                /\ Count(deals'[d], "invalid") < CONSENSUS_THRESHOLD
          /\ (/\ deals[d].status = "pending"
              /\ Count(deals[d], "valid") < CONSENSUS_THRESHOLD
              /\ Count(deals[d], "invalid") < CONSENSUS_THRESHOLD
              /\ deals'[d].status = "pending"
              /\ \/ Count(deals'[d], "valid") >= CONSENSUS_THRESHOLD
                 \/ Count(deals'[d], "invalid") >= CONSENSUS_THRESHOLD)
             => mode = "centralized" ]_vars

\* A verification was just recorded in decentralized mode and left the
\* deal pending with two valid and two invalid verifications.
C25_Witness ==
    /\ mode = "decentralized"
    /\ events = <<Event("DEAL_UPDATED", 1, "pending")>>
    /\ deals[1].status = "pending"
    /\ Count(deals[1], "valid") = 2
    /\ Count(deals[1], "invalid") = 2


\* The most verifications a pending deal can hold under the consensus rule:
\* one less than the thresholds of the two verdicts together.
MostPending == 2 * (CONSENSUS_THRESHOLD - 1)

\* C26: a deal submitted in decentralized mode, verified with the two
\* verdicts while the mode stays decentralized, is pending only with 4
\* verifications or fewer; the step that records its 5th verification, at
\* the latest, finds it verified or rejected.
C26_ThreeOfFive ==
    /\ [](\A d \in 1..Len(deals) :
            deals[d].status = "pending"
            => Len(deals[d].verifications) <= MostPending)
    /\ [][ \A d \in 1..Len(deals) :
             (RecordedOn(d) /\ Len(deals'[d].verifications) > MostPending)
             => deals'[d].status \in {"verified", "rejected"} ]_vars

\* The deal is pending with four verifications, two of each verdict.
C26_Witness ==
    /\ mode = "decentralized"
    /\ deals[1].status = "pending"
    /\ Len(deals[1].verifications) = MostPending
    /\ Count(deals[1], "valid") = Count(deals[1], "invalid")


C28_StampsMatchStatus ==
    /\ \A d \in 1..Len(deals) :
          /\ deals[d].promotedAt # None <=> deals[d].status = "promoted"
          /\ deals[d].verifiedAt # None <=> deals[d].status = "verified"
          /\ ~(deals[d].promotedAt # None /\ deals[d].verifiedAt # None)
          /\ deals[d].promotedAt # None
             => deals[d].promotedAt >= deals[d].timestamp
          /\ deals[d].verifiedAt # None
             => deals[d].verifiedAt >= deals[d].timestamp
    /\ promotedDeals = {d \in 1..Len(deals) : deals[d].status = "promoted"}
    /\ verifiedDeals = {d \in 1..Len(deals) : deals[d].status = "verified"}
    /\ StatusCount("pending") + StatusCount("promoted")
       + StatusCount("verified") + StatusCount("rejected") = totalDeals

\* A deal with three valid verifications, recorded in centralized mode, was
\* promoted: it has the promotion stamp and no verification stamp.
C28_Witness ==
    /\ deals[1].status = "promoted"
    /\ Count(deals[1], "valid") >= CONSENSUS_THRESHOLD
    /\ deals[1].promotedAt >= deals[1].timestamp + promotionDelaySimulated
    /\ deals[1].verifiedAt = None
    /\ promotedDeals = {1}

====
